---- MODULE Spec2Model ----
(***************************************************************************)
(* State-machine model of the quest-limit-chat client: the cookie based    *)
(* auth gate (src/lib/auth.ts), the router (App), the Login and Signup     *)
(* pages and the Chat page with its delayed bot reply.                     *)
(*                                                                         *)
(* Strings the code computes on (user names, message bodies) are sequences *)
(* of one-character strings, so that toLowerCase, trim, slice and length   *)
(* are computed as the code computes them.  Message ids and Date values    *)
(* are not part of the state: no handler reads them back.                  *)
(***************************************************************************)
EXTENDS Integers, Sequences, FiniteSets, TLC

\* ------------------------------------------------------------------ bounds

\* Longest message buffer a send may start from.
MaxMsgs == 2
\* Number of chat ids generateChatId hands out.
MaxChats == 2
\* Pending timers of one kind (bot replies, login timeouts, signup requests).
MaxPending == 1
\* Highest question count a session is driven to where the quota is explored.
MaxQuestions == 11
\* Highest question count a session is driven to where transcripts are explored.
MaxTurns == 3
\* Number of response templates Math.random is allowed to pick from.
MaxRandom == 1
\* Chat ids and starting buffer length where the quota is explored.
QuotaChats == 1
QuotaMsgs == 0
\* Highest question count and longest starting buffer where one mounted Chat
\* is explored.
MaxSessionTurns == 4
MaxSessionMsgs == 4
\* Number of chat ids where one mounted Chat is explored.
MaxSessionChats == 3
\* Longest message body, question count and chat ids where titles are explored.
MaxTitleInput == 32
MaxTitleTurns == 2
MaxTitleChats == 2
\* Highest question count a session is driven to where two users are explored.
MaxIsoTurns == 2

\* ------------------------------------------------------- program constants

\* user.questionsToday < 10
QuestionLimit == 10
\* userMessage.content.slice(0, 30)
TitleLen == 30
\* userMessage.slice(0, 20) in the second response template
ShortSlice == 20

\* ----------------------------------------------------------------- strings

Min(a, b) == IF a < b THEN a ELSE b

Upper == << "A", "B", "C", "D", "E", "F", "G", "H", "I", "J", "K", "L", "M",
            "N", "O", "P", "Q", "R", "S", "T", "U", "V", "W", "X", "Y", "Z" >>

Lower == << "a", "b", "c", "d", "e", "f", "g", "h", "i", "j", "k", "l", "m",
            "n", "o", "p", "q", "r", "s", "t", "u", "v", "w", "x", "y", "z" >>

LowerChar(c) ==
    IF \E i \in 1..26 : Upper[i] = c
    THEN Lower[CHOOSE i \in 1..26 : Upper[i] = c]
    ELSE c

\* String.prototype.toLowerCase
toLowerCase(s) == [i \in 1..Len(s) |-> LowerChar(s[i])]

IsSpace(c) == c \in {" ", "\t", "\n"}

\* String.prototype.trim: whitespace removed at both ends
trim(s) ==
    LET keep == {i \in 1..Len(s) : ~IsSpace(s[i])}
    IN  IF keep = {} THEN << >>
        ELSE LET lo == CHOOSE i \in keep : \A j \in keep : i <= j
                 hi == CHOOSE i \in keep : \A j \in keep : j <= i
             IN  SubSeq(s, lo, hi)

\* String.prototype.slice(0, n)
slice(s, n) == SubSeq(s, 1, Min(n, Len(s)))

Repeat(c, n) == [i \in 1..n |-> c]

\* ------------------------------------------------------------------ inputs

AdminRole == << "a", "d", "m", "i", "n" >>

\* User names typed at login; role is the lower-cased name.
Usernames == { << "A", "d", "m", "i", "n" >>, << "v", "i", "e", "w", "e", "r" >> }

Passwords == { << >>, << "p", "w" >> }

\* Message bodies typed into the chat input: empty, blank, short, and one
\* character longer than a title.
Bodies == { << >>, << " " >>, << "H", "i" >>, Repeat("x", TitleLen + 1) }

\* Message bodies of every length up to MaxTitleInput
TitleInputs == { Repeat(c, n) : c \in { "x", "y" }, n \in 1..MaxTitleInput }

Paths == { "/", "/login", "/signup", "/chat", "/other" }

\* ------------------------------------------------------------------ values

None == [kind |-> "none"]

Some(v) == [kind |-> "some", val |-> v]

\* localStorage.getItem(key) === null
Absent == [kind |-> "absent"]

\* a stored string that JSON.parse rejects
Malformed == [kind |-> "malformed"]

\* JSON.stringify(v), as stored; JSON.parse gives v back
Json(v) == [kind |-> "json", val |-> v]

\* Cookies.get(TOKEN_KEY) === undefined
NoToken == << >>

Token == << "t", "o", "k" >>

\* activeChat === null
NoChat == 0

VARIABLES
    cookie,           \* the auth_token cookie (NoToken when unset)
    lsUser,           \* localStorage "user"
    lsHistory,        \* localStorage "chatHistory_<username>", by username
    rootAuth,         \* isAuthenticated() as evaluated when App rendered
    path,             \* router location
    view,             \* mounted page: routing, login, signup, chat, notfound, crashed
    user,             \* Chat state
    chatHistory,      \* Chat state
    activeChat,       \* Chat state
    currentMessages,  \* Chat state
    isLoading,        \* Chat state
    botTimers,        \* pending bot-reply timeouts, oldest first, with their closures
    loginLoading,     \* Login state isLoading
    loginTimers,      \* pending login timeouts, oldest first, with their closures
    signupLoading,    \* Signup state isLoading: its request is in flight
    signupDead,       \* requests in flight whose Signup page is unmounted
    nextChatId,       \* next id generateChatId returns
    asked,            \* history: accepted user messages per user name (saturating)
    lastOp            \* history: the handler that ran last, with its outcome

vars == << cookie, lsUser, lsHistory, rootAuth, path, view, user, chatHistory,
           activeChat, currentMessages, isLoading, botTimers, loginLoading,
           loginTimers, signupLoading, signupDead, nextChatId, asked, lastOp >>

durable == << cookie, lsUser, lsHistory >>

chatState == << user, chatHistory, activeChat, currentMessages, isLoading >>

\* -------------------------------------------------------------- auth gate

\* authService.isAuthenticated: !!Cookies.get(TOKEN_KEY)
isAuthenticated == cookie # NoToken

\* ProtectedRoute: TRUE when the children are rendered, FALSE when it
\* returns <Navigate to="/login" replace />
ProtectedRoute_NoCheck == TRUE

ProtectedRoute == isAuthenticated

\* the "/" route element, built once when App renders
RootTarget == IF rootAuth THEN "/chat" ELSE "/login"

\* ------------------------------------------------------------ chat helpers

canAskQuestion_NoLimit(u) ==
    IF u = None THEN FALSE
    ELSE IF u.val.role = AdminRole THEN TRUE
    ELSE u.val.questionsToday <= QuestionLimit

canAskQuestion_NoExemption(u) ==
    IF u = None THEN FALSE
    ELSE u.val.questionsToday < QuestionLimit

canAskQuestion(u) ==
    IF u = None THEN FALSE
    ELSE IF u.val.role = AdminRole THEN TRUE
    ELSE u.val.questionsToday < QuestionLimit

\* !currentMessage.trim()
IsBlank_NoTrim(body) == body = << >>

IsBlank(body) == trim(body) = << >>

\* chatTitle
chatTitle_Inclusive(content) ==
    slice(content, TitleLen) \o (IF Len(content) >= TitleLen THEN << "..." >> ELSE << >>)

chatTitle(content) ==
    slice(content, TitleLen) \o (IF Len(content) > TitleLen THEN << "..." >> ELSE << >>)

\* generateBotResponse: the templates, with the user message embedded
responses(userMessage) ==
    << << "I understand your question about: " >> \o slice(userMessage, TitleLen)
           \o << "... Let me help you with that." >>,
       << "That's an interesting point! Here's what I think about " >>
           \o slice(userMessage, ShortSlice) \o << "..." >>,
       << "Based on your question, I can provide some insights on this topic." >>,
       << "Thank you for asking! This is a great question that requires careful consideration." >>,
       << "I can help you with that. Let me break down the information for you." >> >>

\* Math.floor(Math.random() * responses.length)
RandomIndex == 1..Min(MaxRandom, Len(responses(<< >>)))

Message(content, isBot) == [content |-> content, isBot |-> isBot]

Orphaned(q) == [i \in 1..Len(q) |-> [q[i] EXCEPT !.live = FALSE]]

Bump(n) == Min(n + 1, QuestionLimit + 1)

\* ------------------------------------------------------------- construction

\* The first page load: empty storage, no cookie, any address typed.
Init ==
    /\ cookie = NoToken
    /\ lsUser = Absent
    /\ lsHistory = [u \in Usernames |-> Absent]
    /\ rootAuth = FALSE
    /\ path \in Paths
    /\ view = "routing"
    /\ user = None
    /\ chatHistory = << >>
    /\ activeChat = NoChat
    /\ currentMessages = << >>
    /\ isLoading = FALSE
    /\ botTimers = << >>
    /\ loginLoading = FALSE
    /\ loginTimers = << >>
    /\ signupLoading = FALSE
    /\ signupDead = 0
    /\ nextChatId = 1
    /\ asked = [u \in Usernames |-> 0]
    /\ lastOp = "page_load"

\* A page load whose storage holds values this program did not write.
InitStorage ==
    /\ cookie = NoToken
    /\ lsUser \in {Absent, Malformed}
    /\ lsHistory \in [Usernames -> {Absent, Malformed}]
    /\ rootAuth = FALSE
    /\ path \in Paths
    /\ view = "routing"
    /\ user = None
    /\ chatHistory = << >>
    /\ activeChat = NoChat
    /\ currentMessages = << >>
    /\ isLoading = FALSE
    /\ botTimers = << >>
    /\ loginLoading = FALSE
    /\ loginTimers = << >>
    /\ signupLoading = FALSE
    /\ signupDead = 0
    /\ nextChatId = 1
    /\ asked = [u \in Usernames |-> 0]
    /\ lastOp = "page_load"

\* The Chat page right after it mounted on the session a login stored for
\* user name "viewer": signed up (cookie), logged in, nothing sent yet.
InitSession ==
    /\ cookie = Token
    /\ lsUser = Json([username |-> << "v", "i", "e", "w", "e", "r" >>,
                      role |-> << "v", "i", "e", "w", "e", "r" >>,
                      questionsToday |-> 0])
    /\ lsHistory = [u \in Usernames |-> Absent]
    /\ rootAuth \in BOOLEAN
    /\ path = "/chat"
    /\ view = "chat"
    /\ user = Some(lsUser.val)
    /\ chatHistory = << >>
    /\ activeChat = NoChat
    /\ currentMessages = << >>
    /\ isLoading = FALSE
    /\ botTimers = << >>
    /\ loginLoading = FALSE
    /\ loginTimers = << >>
    /\ signupLoading = FALSE
    /\ signupDead = 0
    /\ nextChatId = 1
    /\ asked = [u \in Usernames |-> 0]
    /\ lastOp = "login_ok"

\* The router about to render on any stored state the program leaves behind:
\* after a page load, after the cookie expired on the loaded page, or right
\* after Signup stored the cookie and navigated to "/chat"; a session stored
\* by an earlier login or none.
InitRedirect ==
    /\ cookie \in {NoToken, Token}
    /\ lsUser \in {Absent} \cup
                  { Json([username |-> u, role |-> toLowerCase(u), questionsToday |-> 0]) :
                      u \in Usernames }
    /\ lsHistory = [u \in Usernames |-> Absent]
    /\ rootAuth \in BOOLEAN
    /\ path \in Paths
    /\ (cookie # NoToken /\ ~rootAuth) => path = "/chat"
    /\ view = "routing"
    /\ user = None
    /\ chatHistory = << >>
    /\ activeChat = NoChat
    /\ currentMessages = << >>
    /\ isLoading = FALSE
    /\ botTimers = << >>
    /\ loginLoading = FALSE
    /\ loginTimers = << >>
    /\ signupLoading = FALSE
    /\ signupDead = 0
    /\ nextChatId = 1
    /\ asked = [u \in Usernames |-> 0]
    /\ lastOp = IF rootAuth = (cookie # NoToken) THEN "page_load"
                ELSE IF rootAuth THEN "cookie_expired" ELSE "signup_ok"

\* The router about to render in a signed-up browser with no session stored.
InitIso ==
    /\ InitRedirect
    /\ cookie # NoToken
    /\ lsUser = Absent

\* ------------------------------------------------------------- page, router

\* The Chat component is unmounted: its state is gone, its timers stay.
ChatUnmounted_Cancels ==
    /\ user' = None
    /\ chatHistory' = << >>
    /\ activeChat' = NoChat
    /\ currentMessages' = << >>
    /\ isLoading' = FALSE
    /\ botTimers' = << >>

ChatUnmounted ==
    /\ user' = None
    /\ chatHistory' = << >>
    /\ activeChat' = NoChat
    /\ currentMessages' = << >>
    /\ isLoading' = FALSE
    /\ botTimers' = Orphaned(botTimers)

\* The Signup component is unmounted: its request stays in flight.
SignupUnmounted ==
    /\ signupLoading' = FALSE
    /\ signupDead' = signupDead + (IF signupLoading THEN 1 ELSE 0)

\* navigate(p) changes nothing that is rendered: the router is gone after an
\* uncaught render error, or p is the location already rendered.
Stays(p) == view = "crashed" \/ (p = path /\ view # "routing")

\* The browser loads the page at address p: App renders (the "/" element is
\* built from isAuthenticated() now), every timer and request of the old
\* page is gone.
PageLoad(p) ==
    /\ rootAuth' = isAuthenticated
    /\ path' = p
    /\ view' = "routing"
    /\ user' = None
    /\ chatHistory' = << >>
    /\ activeChat' = NoChat
    /\ currentMessages' = << >>
    /\ isLoading' = FALSE
    /\ botTimers' = << >>
    /\ loginLoading' = FALSE
    /\ loginTimers' = << >>
    /\ signupLoading' = FALSE
    /\ signupDead' = 0
    /\ lastOp' = "page_load"
    /\ UNCHANGED << durable, nextChatId, asked >>

\* Route "/": <Navigate to=... replace />
RootRoute ==
    /\ view = "routing"
    /\ path = "/"
    /\ path' = RootTarget
    /\ UNCHANGED << durable, rootAuth, view, chatState, botTimers, loginLoading,
                    loginTimers, signupLoading, signupDead, nextChatId, asked, lastOp >>

\* Route "/login": <Login />
LoginRoute ==
    /\ view = "routing"
    /\ path = "/login"
    /\ view' = "login"
    /\ loginLoading' = FALSE
    /\ UNCHANGED << durable, rootAuth, path, chatState, botTimers,
                    loginTimers, signupLoading, signupDead, nextChatId, asked, lastOp >>

\* Route "/signup": <Signup />
SignupRoute ==
    /\ view = "routing"
    /\ path = "/signup"
    /\ view' = "signup"
    /\ signupLoading' = FALSE
    /\ UNCHANGED << durable, rootAuth, path, chatState, botTimers, loginLoading,
                    loginTimers, signupDead, nextChatId, asked, lastOp >>

\* Route "*": <NotFound />
NotFoundRoute ==
    /\ view = "routing"
    /\ path \notin {"/", "/login", "/signup", "/chat"}
    /\ view' = "notfound"
    /\ UNCHANGED << durable, rootAuth, path, chatState, botTimers, loginLoading,
                    loginTimers, signupLoading, signupDead, nextChatId, asked, lastOp >>

\* Route "/chat", ProtectedRoute without a token: <Navigate to="/login" replace />
ProtectedRedirect ==
    /\ view = "routing"
    /\ path = "/chat"
    /\ ~ProtectedRoute
    /\ path' = "/login"
    /\ UNCHANGED << durable, rootAuth, view, chatState, botTimers, loginLoading,
                    loginTimers, signupLoading, signupDead, nextChatId, asked, lastOp >>

\* JSON.parse throws on the stored session or on the stored history
MountThrows ==
    \/ lsUser = Malformed
    \/ /\ lsUser # Absent
       /\ lsHistory[lsUser.val.username] = Malformed

\* The history the mount effect loads for parsedUser
LoadedHistory(parsedUser) ==
    IF lsHistory[parsedUser.username] = Absent THEN << >>
    ELSE lsHistory[parsedUser.username].val

\* Route "/chat", ProtectedRoute with a token: <Chat /> mounts and its effect
\* runs: no stored session navigates to "/", a stored one is loaded with the
\* history of its user name; JSON.parse is not guarded.
ChatMount ==
    /\ view = "routing"
    /\ path = "/chat"
    /\ ProtectedRoute
    /\ IF lsUser = Absent
       THEN /\ path' = "/"
            /\ view' = "routing"
            /\ UNCHANGED chatState
       ELSE IF MountThrows
       THEN /\ view' = "crashed"
            /\ UNCHANGED << path, chatState >>
       ELSE /\ view' = "chat"
            /\ user' = Some(lsUser.val)
            /\ chatHistory' = LoadedHistory(lsUser.val)
            /\ activeChat' = NoChat
            /\ currentMessages' = << >>
            /\ isLoading' = FALSE
            /\ UNCHANGED path
    /\ UNCHANGED << durable, rootAuth, botTimers, loginLoading, loginTimers,
                    signupLoading, signupDead, nextChatId, asked, lastOp >>

\* The auth_token cookie reaches the end of its 7 days.
CookieExpires ==
    /\ cookie # NoToken
    /\ cookie' = NoToken
    /\ lastOp' = "cookie_expired"
    /\ UNCHANGED << lsUser, lsHistory, rootAuth, path, view, chatState, botTimers,
                    loginLoading, loginTimers, signupLoading, signupDead,
                    nextChatId, asked >>

\* ------------------------------------------------------------------- Login

\* handleLogin up to setTimeout: the closure keeps the fields as typed
LoginSubmit(username, password) ==
    /\ view = "login"
    /\ ~loginLoading
    /\ Len(loginTimers) < MaxPending
    /\ loginLoading' = TRUE
    /\ loginTimers' = Append(loginTimers,
                             [username |-> username, password |-> password, live |-> TRUE])
    /\ lastOp' = "login_submit"
    /\ UNCHANGED << durable, rootAuth, path, view, chatState, botTimers,
                    signupLoading, signupDead, nextChatId, asked >>

\* userData of handleLogin
userData(username) ==
    [username |-> username, role |-> toLowerCase(username), questionsToday |-> 0]

\* handleLogin's timeout callback
LoginTimeout ==
    /\ loginTimers # << >>
    /\ LET t == Head(loginTimers)
           ok == t.username # << >> /\ t.password # << >>
           go == ok /\ ~Stays("/chat")
       IN  /\ lsUser' = IF ok THEN Json(userData(t.username)) ELSE lsUser
           /\ lastOp' = IF ok THEN "login_ok" ELSE "login_failed"
           /\ loginTimers' = IF go THEN Orphaned(Tail(loginTimers)) ELSE Tail(loginTimers)
           /\ loginLoading' = IF go \/ t.live THEN FALSE ELSE loginLoading
           /\ IF go
              THEN /\ path' = "/chat"
                   /\ view' = "routing"
                   /\ ChatUnmounted
                   /\ SignupUnmounted
              ELSE UNCHANGED << path, view, chatState, botTimers, signupLoading, signupDead >>
    /\ UNCHANGED << cookie, lsHistory, rootAuth, nextChatId, asked >>

\* ------------------------------------------------------------------ Signup

SignupRoles == { "", "student", "faculty", "admin" }

\* handleSignup up to the fetch
SignupSubmit(role) ==
    /\ view = "signup"
    /\ ~signupLoading
    /\ IF role = ""
       THEN /\ lastOp' = "signup_norole"
            /\ UNCHANGED signupLoading
       ELSE /\ signupDead < MaxPending
            /\ signupLoading' = TRUE
            /\ lastOp' = "signup_submit"
    /\ UNCHANGED << durable, rootAuth, path, view, chatState, botTimers, loginLoading,
                    loginTimers, signupDead, nextChatId, asked >>

SignupOutcomes == { "ok_token", "ok_no_token", "not_ok", "network_error" }

\* response.ok && data.token
SignupAccepted_AnyOk(outcome) == outcome \in { "ok_token", "ok_no_token" }

SignupAccepted(outcome) == outcome = "ok_token"

\* handleSignup after the fetch settles, for the request of the mounted
\* Signup page (live) or of an unmounted one
SignupResponse(outcome, live) ==
    /\ IF live THEN signupLoading ELSE signupDead > 0
    /\ LET ok == SignupAccepted(outcome)
           go == ok /\ ~Stays("/chat")
       IN  /\ cookie' = IF ok THEN Token ELSE cookie
           /\ lastOp' = IF ok THEN "signup_ok" ELSE "signup_failed"
           /\ signupLoading' = IF go \/ live THEN FALSE ELSE signupLoading
           /\ signupDead' = IF live THEN signupDead
                             ELSE signupDead - 1 + (IF go /\ signupLoading THEN 1 ELSE 0)
           /\ IF go
              THEN /\ path' = "/chat"
                   /\ view' = "routing"
                   /\ ChatUnmounted
                   /\ loginLoading' = FALSE
                   /\ loginTimers' = Orphaned(loginTimers)
              ELSE UNCHANGED << path, view, chatState, botTimers, loginLoading, loginTimers >>
    /\ UNCHANGED << lsUser, lsHistory, rootAuth, nextChatId, asked >>

\* <Link to="/login"> of the Signup page
SignupLink ==
    /\ view = "signup"
    /\ path' = "/login"
    /\ view' = "routing"
    /\ SignupUnmounted
    /\ lastOp' = "signup_link"
    /\ UNCHANGED << durable, rootAuth, chatState, botTimers, loginLoading, loginTimers,
                    nextChatId, asked >>

\* -------------------------------------------------------------------- Chat

\* updatedUser of handleSendMessage
updatedUser_NoCount(u) == u

updatedUser_NonAdmin(u) ==
    IF u.role = AdminRole THEN u ELSE [u EXCEPT !.questionsToday = @ + 1]

updatedUser(u) == [u EXCEPT !.questionsToday = @ + 1]

\* The early return of handleSendMessage
SendRejected(body) == IsBlank(body) \/ user = None \/ ~canAskQuestion(user)

\* Pending replies that will take a new chat id
PendingNew == Cardinality({i \in 1..Len(botTimers) : botTimers[i].activeChat = NoChat})

\* The closure of the bot-reply timeout: what the render that handled the
\* send saw, and the message list it built
ReplyClosure(updatedMessages) ==
    [live |-> TRUE,
     username |-> user.val.username,
     messages |-> updatedMessages,
     activeChat |-> activeChat,
     chatHistory |-> chatHistory]

\* handleSendMessage up to setTimeout.  The input and the send button are
\* disabled while isLoading, so no send starts while a reply of this Chat
\* is pending.
handleSendMessage(body, run) ==
    /\ view = "chat"
    /\ ~isLoading
    /\ IF SendRejected(body)
       THEN /\ lastOp' = IF IsBlank(body) THEN "send_blank" ELSE "send_quota"
            /\ UNCHANGED << lsUser, chatState, botTimers, asked >>
       ELSE /\ Len(currentMessages) <= run.msgs
            /\ Len(botTimers) < MaxPending
            /\ user.val.questionsToday < run.questions
            /\ activeChat = NoChat => (nextChatId - 1) + PendingNew < run.chats
            /\ LET updatedMessages == Append(currentMessages, Message(body, FALSE))
               IN  /\ currentMessages' = updatedMessages
                   /\ user' = Some(updatedUser(user.val))
                   /\ lsUser' = Json(updatedUser(user.val))
                   /\ botTimers' = Append(botTimers, ReplyClosure(updatedMessages))
            /\ isLoading' = TRUE
            /\ asked' = IF run.count /\ user.val.role # AdminRole
                        THEN [asked EXCEPT ![user.val.username] = Bump(@)]
                        ELSE asked
            /\ lastOp' = "send_accepted"
            /\ UNCHANGED << chatHistory, activeChat >>
    /\ UNCHANGED << cookie, lsHistory, rootAuth, path, view, loginLoading, loginTimers,
                    signupLoading, signupDead, nextChatId >>

\* updatedMessages of the timeout callback
ReplyMessages_Prepend(t, k) ==
    << Message(responses(t.messages[Len(t.messages)].content)[k], TRUE) >> \o t.messages

ReplyMessages(t, k) ==
    Append(t.messages, Message(responses(t.messages[Len(t.messages)].content)[k], TRUE))

\* chatTitle of the timeout callback
ReplyTitle_First(t) == chatTitle(t.messages[1].content)

ReplyTitle(t) == chatTitle(t.messages[Len(t.messages)].content)

\* updatedHistory of the timeout callback
updatedHistory_Append(t, k) ==
    IF t.activeChat # NoChat
    THEN [i \in 1..Len(t.chatHistory) |->
            IF t.chatHistory[i].id = t.activeChat
            THEN [t.chatHistory[i] EXCEPT !.messages = ReplyMessages(t, k),
                                          !.title = ReplyTitle(t)]
            ELSE t.chatHistory[i]]
    ELSE t.chatHistory
             \o << [id |-> nextChatId, title |-> ReplyTitle(t), messages |-> ReplyMessages(t, k)] >>

updatedHistory(t, k) ==
    IF t.activeChat # NoChat
    THEN [i \in 1..Len(t.chatHistory) |->
            IF t.chatHistory[i].id = t.activeChat
            THEN [t.chatHistory[i] EXCEPT !.messages = ReplyMessages(t, k),
                                          !.title = ReplyTitle(t)]
            ELSE t.chatHistory[i]]
    ELSE << [id |-> nextChatId, title |-> ReplyTitle(t), messages |-> ReplyMessages(t, k)] >>
             \o t.chatHistory

\* The user name in the key of the index the callback writes:
\* `chatHistory_${user.username}`, user being the one the closure captured
HistoryKey_Stored(t) ==
    IF lsUser.kind = "json" THEN lsUser.val.username ELSE t.username

HistoryKey(t) == t.username

\* The timeout callback of handleSendMessage, oldest timer first.  It always
\* writes localStorage; its setState calls reach the Chat state only when the
\* component that made the timer is still mounted.
BotReply(k) ==
    /\ botTimers # << >>
    /\ LET t == Head(botTimers)
       IN  /\ lsHistory' = [lsHistory EXCEPT ![HistoryKey(t)] = Json(updatedHistory(t, k))]
           /\ nextChatId' = IF t.activeChat = NoChat THEN nextChatId + 1 ELSE nextChatId
           /\ IF t.live
              THEN /\ currentMessages' = ReplyMessages(t, k)
                   /\ chatHistory' = updatedHistory(t, k)
                   /\ activeChat' = IF t.activeChat = NoChat THEN nextChatId ELSE activeChat
                   /\ isLoading' = FALSE
              ELSE UNCHANGED << currentMessages, chatHistory, activeChat, isLoading >>
    /\ botTimers' = Tail(botTimers)
    /\ lastOp' = "bot_reply"
    /\ UNCHANGED << cookie, lsUser, rootAuth, path, view, user, loginLoading, loginTimers,
                    signupLoading, signupDead, asked >>

startNewChat_KeepsBuffer ==
    /\ view = "chat"
    /\ activeChat' = NoChat
    /\ lastOp' = "new_chat"
    /\ UNCHANGED << durable, rootAuth, path, view, user, chatHistory, currentMessages,
                    isLoading, botTimers, loginLoading, loginTimers, signupLoading,
                    signupDead, nextChatId, asked >>

startNewChat ==
    /\ view = "chat"
    /\ activeChat' = NoChat
    /\ currentMessages' = << >>
    /\ lastOp' = "new_chat"
    /\ UNCHANGED << durable, rootAuth, path, view, user, chatHistory, isLoading, botTimers,
                    loginLoading, loginTimers, signupLoading, signupDead, nextChatId, asked >>

\* chatHistory.find(c => c.id === chatId)
FindChat_Any(chatId) == 1..Len(chatHistory)

FindChat(chatId) == {i \in 1..Len(chatHistory) : chatHistory[i].id = chatId}

loadChat(chatId) ==
    /\ view = "chat"
    /\ IF FindChat(chatId) # {}
       THEN /\ activeChat' = chatId
            /\ currentMessages' =
                   chatHistory[CHOOSE i \in FindChat(chatId) :
                                  \A j \in FindChat(chatId) : i <= j].messages
            /\ lastOp' = "load_chat"
       ELSE /\ lastOp' = "load_missing"
            /\ UNCHANGED << activeChat, currentMessages >>
    /\ UNCHANGED << durable, rootAuth, path, view, user, chatHistory, isLoading, botTimers,
                    loginLoading, loginTimers, signupLoading, signupDead, nextChatId, asked >>

handleLogout ==
    /\ view = "chat"
    /\ lsUser' = Absent
    /\ path' = "/"
    /\ view' = "routing"
    /\ ChatUnmounted
    /\ lastOp' = "logout"
    /\ UNCHANGED << cookie, lsHistory, rootAuth, loginLoading, loginTimers,
                    signupLoading, signupDead, nextChatId, asked >>

\* ----------------------------------------------------------- specification

\* What the environment does in one exploration: the bodies typed, the user
\* names used at login, and the caps on counters the program leaves unbounded.
\* count: whether the history variable asked is kept.
QuotaRun ==
    [bodies |-> { << >>, << " " >>, << "H", "i" >> },
     users |-> Usernames,
     questions |-> MaxQuestions,
     chats |-> QuotaChats,
     msgs |-> QuotaMsgs,
     count |-> TRUE]

ChatRun ==
    [bodies |-> Bodies,
     users |-> { << "v", "i", "e", "w", "e", "r" >> },
     questions |-> MaxTurns,
     chats |-> MaxChats,
     msgs |-> MaxMsgs,
     count |-> FALSE]

SessionRun ==
    [bodies |-> { << "H", "i" >>, << "Y", "o" >> },
     users |-> { << "v", "i", "e", "w", "e", "r" >> },
     questions |-> MaxSessionTurns,
     chats |-> MaxSessionChats,
     msgs |-> MaxSessionMsgs,
     count |-> FALSE]

TitleRun ==
    [bodies |-> TitleInputs,
     users |-> { << "v", "i", "e", "w", "e", "r" >> },
     questions |-> MaxTitleTurns,
     chats |-> MaxTitleChats,
     msgs |-> QuotaMsgs,
     count |-> FALSE]

IsoRun ==
    [bodies |-> Usernames,
     users |-> Usernames,
     questions |-> MaxIsoTurns,
     chats |-> MaxChats,
     msgs |-> MaxMsgs,
     count |-> FALSE]

NextOf(run) ==
    \/ \E p \in Paths : PageLoad(p)
    \/ RootRoute
    \/ LoginRoute
    \/ SignupRoute
    \/ NotFoundRoute
    \/ ProtectedRedirect
    \/ ChatMount
    \/ CookieExpires
    \/ \E u \in run.users \cup {<< >>}, pw \in Passwords : LoginSubmit(u, pw)
    \/ LoginTimeout
    \/ \E r \in SignupRoles : SignupSubmit(r)
    \/ \E o \in SignupOutcomes, live \in BOOLEAN : SignupResponse(o, live)
    \/ SignupLink
    \/ \E b \in run.bodies : handleSendMessage(b, run)
    \/ \E k \in RandomIndex : BotReply(k)
    \/ startNewChat
    \/ \E c \in 1..MaxChats : loadChat(c)
    \/ handleLogout

Next == NextOf(QuotaRun)

NextChat == NextOf(ChatRun)

\* What the user of one mounted Chat page does, and its reply timer.
NextSession ==
    \/ \E b \in SessionRun.bodies : handleSendMessage(b, SessionRun)
    \/ \E k \in RandomIndex : BotReply(k)
    \/ startNewChat
    \/ \E c \in 1..MaxSessionChats : loadChat(c)

\* New conversations of one mounted Chat page, over bodies of every length.
NextTitle ==
    \/ \E b \in TitleRun.bodies : handleSendMessage(b, TitleRun)
    \/ \E k \in RandomIndex : BotReply(k)
    \/ startNewChat

\* A signed-up user who chats, logs out and logs in again, without the
\* Signup page.
NextLogout ==
    \/ \E p \in { "/", "/login", "/chat" } : PageLoad(p)
    \/ RootRoute
    \/ LoginRoute
    \/ ProtectedRedirect
    \/ ChatMount
    \/ CookieExpires
    \/ \E u \in ChatRun.users \cup {<< >>}, pw \in Passwords : LoginSubmit(u, pw)
    \/ LoginTimeout
    \/ \E b \in ChatRun.bodies : handleSendMessage(b, ChatRun)
    \/ \E k \in RandomIndex : BotReply(k)
    \/ startNewChat
    \/ \E c \in 1..MaxChats : loadChat(c)
    \/ handleLogout

\* The router on its own, with a user who only chats and logs out: every
\* step taken while no page is mounted is an automatic one.
NextRedirect ==
    \/ RootRoute
    \/ LoginRoute
    \/ SignupRoute
    \/ NotFoundRoute
    \/ ProtectedRedirect
    \/ ChatMount
    \/ \E b \in ChatRun.bodies : handleSendMessage(b, ChatRun)
    \/ \E k \in RandomIndex : BotReply(k)
    \/ handleLogout

\* Several users of one browser who log in, chat and log out in turn; every
\* message typed carries the user name of the session the Chat has loaded,
\* so that a stored message tells which session sent it.
NextIso ==
    \/ \E p \in { "/", "/login", "/chat" } : PageLoad(p)
    \/ RootRoute
    \/ LoginRoute
    \/ ProtectedRedirect
    \/ ChatMount
    \/ CookieExpires
    \/ \E u \in IsoRun.users, pw \in Passwords : LoginSubmit(u, pw)
    \/ LoginTimeout
    \/ \E b \in IsoRun.bodies :
          /\ user # None
          /\ b = user.val.username
          /\ handleSendMessage(b, IsoRun)
    \/ \E k \in RandomIndex : BotReply(k)
    \/ startNewChat
    \/ \E c \in 1..MaxChats : loadChat(c)
    \/ handleLogout

\* Sessions, quota and the auth gate.
Spec == Init /\ [][Next]_vars

\* Transcripts of one user.
SpecChat == Init /\ [][NextChat]_vars

\* The same program started on storage it did not write.
SpecStorage == InitStorage /\ [][Next]_vars

\* One mounted Chat page, with longer conversations.
SpecSession == InitSession /\ [][NextSession]_vars

\* Chat, logout and login of a signed-up user, with timers that fire and
\* redirects that render.
FairLogout ==
    /\ InitSession
    /\ [][NextLogout]_vars
    /\ WF_vars(\E k \in RandomIndex : BotReply(k))
    /\ WF_vars(LoginTimeout)
    /\ WF_vars(RootRoute \/ LoginRoute \/ ProtectedRedirect \/ ChatMount)

\* Redirects that render and timers that fire, from every stored state.
FairRedirect ==
    /\ InitRedirect
    /\ [][NextRedirect]_vars
    /\ WF_vars(RootRoute \/ LoginRoute \/ SignupRoute \/ NotFoundRoute
                 \/ ProtectedRedirect \/ ChatMount)
    /\ WF_vars(\E k \in RandomIndex : BotReply(k))

\* Two user names taking turns in one signed-up browser.
SpecIso == InitIso /\ [][NextIso]_vars

\* chatTitle applied to message bodies of every length.
SpecTitle == InitSession /\ [][NextTitle]_vars

\* The transcripts specification with timers that fire and redirects that
\* render: the event loop runs every pending timeout, React renders every
\* location change.
FairChat ==
    /\ SpecChat
    /\ WF_vars(\E k \in RandomIndex : BotReply(k))
    /\ WF_vars(LoginTimeout)
    /\ WF_vars(RootRoute \/ LoginRoute \/ SignupRoute \/ NotFoundRoute
                 \/ ProtectedRedirect \/ ChatMount)

\* ------------------------------------------------------------------ claims

NonAdmin(u) == u # None /\ u.val.role # AdminRole

IsAdmin(u) == u # None /\ u.val.role = AdminRole

StoredNonAdmin == lsUser.kind = "json" /\ lsUser.val.role # AdminRole

\* A step of handleSendMessage that accepts: only it sets isLoading.
AcceptStep == ~isLoading /\ isLoading'

\* A step of handleSendMessage with body b in the quota exploration (the
\* label test comes first: it is the cheap part of the action)
SendStep(b) ==
    /\ lastOp' \in {"send_accepted", "send_blank", "send_quota"}
    /\ handleSendMessage(b, QuotaRun)

\* A step of the bot reply, of new chat or of select chat
ReplyStep == lastOp' = "bot_reply" /\ \E k \in RandomIndex : BotReply(k)

NewChatStep == lastOp' = "new_chat" /\ startNewChat

LoadChatStep == lastOp' \in {"load_chat", "load_missing"} /\ \E c \in 1..MaxChats : loadChat(c)

\* The pending timers of the mounted Chat
LiveTimers == {i \in 1..Len(botTimers) : botTimers[i].live}

C1_Bounded ==
    /\ NonAdmin(user) => user.val.questionsToday <= QuestionLimit
    /\ StoredNonAdmin => lsUser.val.questionsToday <= QuestionLimit

C1_Step(b) ==
    (SendStep(b) /\ trim(b) # << >> /\ NonAdmin(user)) =>
        IF user.val.questionsToday < QuestionLimit
        THEN /\ currentMessages' = Append(currentMessages, Message(b, FALSE))
             /\ Len(botTimers') = Len(botTimers) + 1
             /\ user'.val.questionsToday = user.val.questionsToday + 1
             /\ lastOp' = "send_accepted"
        ELSE /\ UNCHANGED << currentMessages, botTimers, user, lsUser, isLoading >>
             /\ lastOp' = "send_quota"

\* C1: a non-admin session accepts a non-blank send exactly while its count
\* is below 10, each accepted send adding 1; at 10 a send appends no message,
\* schedules no reply and leaves the count; so the count of a non-admin
\* session, in memory and persisted, never exceeds 10.
C1_QuotaEnforced == []C1_Bounded /\ [][\A b \in Bodies : C1_Step(b)]_vars

C1_Witness ==
    /\ view = "chat"
    /\ NonAdmin(user)
    /\ user.val.questionsToday = QuestionLimit
    /\ lastOp = "send_quota"

C2_Step(b) ==
    (SendStep(b) /\ trim(b) # << >> /\ IsAdmin(user)) =>
        /\ currentMessages' = Append(currentMessages, Message(b, FALSE))
        /\ Len(botTimers') = Len(botTimers) + 1
        /\ lastOp' = "send_accepted"

\* C2: a non-blank send of an admin session is accepted whatever the count;
\* a quota rejection never happens in an admin session.
C2_AdminExempt ==
    /\ [](lastOp = "send_quota" => ~IsAdmin(user))
    /\ [][\A b \in Bodies : C2_Step(b)]_vars

C2_Witness ==
    /\ view = "chat"
    /\ IsAdmin(user)
    /\ user.val.questionsToday > QuestionLimit
    /\ lastOp = "send_accepted"

\* C3: the accepted user messages of a non-admin user name, summed over its
\* logins, are at most 10.
C3_DailyQuota == \A u \in Usernames : asked[u] <= QuestionLimit

\* C4 as claimed: an accepted send adds 1 to the count of a non-admin session
\* and leaves the count of an admin session.
C4_Original ==
    [][AcceptStep =>
         user'.val.questionsToday =
             user.val.questionsToday + (IF user.val.role = AdminRole THEN 0 ELSE 1)]_vars

\* C4 amended: an accepted send adds exactly 1 to the count of every session,
\* admin included, in memory and persisted; the mounted Chat changes its
\* count in no other step, and bot reply, new chat, select chat and a
\* rejected send leave the persisted session as it is.
C4_CountStep ==
    /\ [][AcceptStep =>
            /\ user'.val = [user.val EXCEPT !.questionsToday = @ + 1]
            /\ lsUser' = Json(user'.val)]_vars
    /\ [][(user # None /\ user' # None /\ ~AcceptStep) => user' = user]_vars
    /\ [][(ReplyStep \/ NewChatStep \/ LoadChatStep
            \/ (~AcceptStep /\ \E b \in Bodies : SendStep(b)))
           => UNCHANGED << user, lsUser >>]_vars

C4_Witness ==
    /\ view = "chat"
    /\ IsAdmin(user)
    /\ user.val.questionsToday > 0
    /\ lsUser = Json(user.val)
    /\ lastOp = "send_accepted"

\* C5: the Chat page mounts only in a step taken with a non-empty auth_token
\* cookie stored; without one the "/chat" route moves to "/login" and
\* mounts nothing.
C5_ProtectedChat ==
    /\ [][(view # "chat" /\ view' = "chat") => cookie # NoToken]_vars
    /\ [][(view = "routing" /\ path = "/chat" /\ cookie = NoToken
             /\ (ProtectedRedirect \/ ChatMount))
            => (path' = "/login" /\ view' = "routing" /\ user' = None)]_vars

C5_Witness == view = "chat" /\ user # None /\ cookie # NoToken

\* C6: once the navigation after a successful login has settled, the Chat
\* page is mounted with the session the login persisted and with the stored
\* history of that user.
C6_LoginReachesChat ==
    (lastOp = "login_ok" /\ view # "routing") =>
        /\ lsUser.kind = "json"
        /\ lsUser.val.questionsToday = 0
        /\ lsUser.val.role = toLowerCase(lsUser.val.username)
        /\ view = "chat"
        /\ user = Some(lsUser.val)
        /\ chatHistory = LoadedHistory(lsUser.val)

\* C7: mounting Chat on malformed stored JSON raises nothing: a malformed
\* session is an absent session, a malformed index is an empty history.
C7_FailSoft ==
    [][(view = "routing" /\ path = "/chat" /\ ChatMount) =>
         IF lsUser \in {Absent, Malformed}
         THEN path' = "/" /\ view' = "routing" /\ user' = None
         ELSE /\ view' = "chat"
              /\ user' = Some(lsUser.val)
              /\ chatHistory' = IF lsHistory[lsUser.val.username] = Malformed
                                THEN << >>
                                ELSE LoadedHistory(lsUser.val)]_vars

\* C8: a send whose body is empty after trimming changes nothing: buffer,
\* count in memory and persisted, index in memory and persisted, active
\* pointer, loading flag and pending replies.
C8_BlankNoOp ==
    [][\A b \in Bodies :
         (SendStep(b) /\ trim(b) = << >>) =>
             UNCHANGED << currentMessages, user, lsUser, chatHistory, lsHistory,
                          activeChat, isLoading, botTimers >>]_vars

C8_Witness ==
    /\ view = "chat"
    /\ canAskQuestion(user)
    /\ lastOp = "send_blank"

\* The user name of the mounted session's stored index holds a transcript
\* with this title and these messages
StoredTranscript(username, title, messages) ==
    /\ lsHistory[username].kind = "json"
    /\ \E i \in 1..Len(lsHistory[username].val) :
          /\ lsHistory[username].val[i].title = title
          /\ lsHistory[username].val[i].messages = messages

\* C9 as claimed: right after the first message of a new conversation is
\* accepted, before any bot reply, the persisted index of the user holds a
\* transcript titled from that message whose messages are that one message.
C9_Original ==
    (view = "chat" /\ isLoading /\ lastOp = "send_accepted" /\ activeChat = NoChat
       /\ Len(currentMessages) = 1) =>
        StoredTranscript(user.val.username, chatTitle(currentMessages[1].content),
                         currentMessages)

\* C9 amended: an accepted send persists at once only the session, with the
\* count 1 higher, and appends the message to the buffer; the persisted
\* index is not written at acceptance.  The transcript of a new conversation
\* is written by the bot reply: a new entry titled from that message whose
\* messages are the accepted buffer followed by the reply.
C9_PersistedAtReply ==
    /\ [][AcceptStep =>
            /\ lsHistory' = lsHistory
            /\ lsUser' = Json(user'.val)
            /\ user'.val.questionsToday = user.val.questionsToday + 1
            /\ \E b \in Bodies : currentMessages' = Append(currentMessages, Message(b, FALSE))]_vars
    /\ [][(ReplyStep /\ Head(botTimers).activeChat = NoChat) =>
            LET t == Head(botTimers)
                h == lsHistory'[t.username]
            IN  /\ h.kind = "json"
                /\ Len(h.val) = Len(t.chatHistory) + 1
                /\ \A i \in 1..Len(t.chatHistory) : t.chatHistory[i].id # h.val[1].id
                /\ h.val[1].title = chatTitle(t.messages[Len(t.messages)].content)
                /\ Len(h.val[1].messages) = Len(t.messages) + 1
                /\ SubSeq(h.val[1].messages, 1, Len(t.messages)) = t.messages
                /\ h.val[1].messages[Len(t.messages) + 1].isBot]_vars

C9_Witness ==
    /\ view = "chat"
    /\ isLoading
    /\ lastOp = "send_accepted"
    /\ activeChat = NoChat
    /\ Len(currentMessages) = 1
    /\ user.val.questionsToday = 1
    /\ lsUser = Json(user.val)
    /\ lsHistory[user.val.username] = Absent

OwningChat(t) == IF t.activeChat = NoChat THEN nextChatId ELSE t.activeChat

C10_Pending ==
    /\ Cardinality(LiveTimers) <= 1
    /\ view = "chat" => (isLoading <=> LiveTimers # {})
    /\ view # "chat" => LiveTimers = {}

C10_Reply ==
    ReplyStep =>
        LET t == Head(botTimers)
            n == Len(t.messages)
            h == lsHistory'[t.username]
        IN  /\ h.kind = "json"
            /\ \E i \in 1..Len(h.val) :
                  /\ h.val[i].id = OwningChat(t)
                  /\ Len(h.val[i].messages) = n + 1
                  /\ SubSeq(h.val[i].messages, 1, n) = t.messages
                  /\ h.val[i].messages[n + 1].isBot
                  /\ ~h.val[i].messages[n].isBot
                  /\ t.live => currentMessages' = h.val[i].messages
            /\ Len(h.val) = Len(t.chatHistory) + (IF t.activeChat = NoChat THEN 1 ELSE 0)
            /\ IF t.live
               THEN ~isLoading' /\ chatHistory' = h.val
               ELSE UNCHANGED chatState

IdsOf(h) == {h[i].id : i \in 1..Len(h)}

MessagesOf(h, id) == h[CHOOSE i \in 1..Len(h) : h[i].id = id].messages

IsPrefix(s, t) == Len(s) <= Len(t) /\ SubSeq(t, 1, Len(s)) = s

\* The index persisted under a user name (empty when nothing is stored)
Persisted(u) == IF lsHistory[u].kind = "json" THEN lsHistory[u].val ELSE << >>

\* Every transcript that is in index h before and in index g after the step
\* has its previous messages as a prefix of its new messages
Extends(h, g) ==
    \A id \in IdsOf(h) \cap IdsOf(g) : IsPrefix(MessagesOf(h, id), MessagesOf(g, id))

\* C11: every step leaves the previous message sequence of every transcript
\* of the index, in memory and persisted, as a prefix of its new message
\* sequence.
C11_AppendOnly ==
    [][/\ Extends(chatHistory, chatHistory')
       /\ \A u \in Usernames : Extends(Persisted(u), Persisted(u)')]_vars

\* C12: no step removes a transcript identifier from the index persisted
\* under a user name.
C12_NeverRemoved ==
    [][\A u \in Usernames : IdsOf(Persisted(u)) \subseteq IdsOf(Persisted(u)')]_vars

\* The first and the latest user message of a message sequence
UserAt(msgs) == {i \in 1..Len(msgs) : ~msgs[i].isBot}

FirstUser(msgs) == msgs[CHOOSE i \in UserAt(msgs) : \A j \in UserAt(msgs) : i <= j]

LastUser(msgs) == msgs[CHOOSE i \in UserAt(msgs) : \A j \in UserAt(msgs) : j <= i]

\* C13 as claimed: the title of every transcript of the index is the
\* truncation of the first user message of that transcript.
C13_Original ==
    \A i \in 1..Len(chatHistory) :
        chatHistory[i].title = chatTitle(FirstUser(chatHistory[i].messages).content)

TitledFromLatest(h) ==
    \A i \in 1..Len(h) :
        /\ UserAt(h[i].messages) # {}
        /\ h[i].title = chatTitle(LastUser(h[i].messages).content)

\* C13 amended: the title of a transcript is derived anew at every turn:
\* in the index in memory and persisted it is the truncation of the latest
\* user message of the transcript.
C13_TitleFollowsLatest ==
    /\ TitledFromLatest(chatHistory)
    /\ \A u \in Usernames : TitledFromLatest(Persisted(u))

C13_Witness ==
    /\ lastOp = "bot_reply"
    /\ \E i \in 1..Len(chatHistory) :
          /\ chatHistory[i].id = activeChat
          /\ Len(chatHistory[i].messages) = 4
          /\ FirstUser(chatHistory[i].messages).content = << "H", "i" >>
          /\ LastUser(chatHistory[i].messages).content = << "Y", "o" >>
          /\ chatHistory[i].title = << "Y", "o" >>
    /\ lsHistory[user.val.username] = Json(chatHistory)

\* The title the claim gives a user message m
ClaimedTitle(m) ==
    IF Len(m) <= 30 THEN m ELSE SubSeq(m, 1, 30) \o << "..." >>

\* C14: the title a reply writes for the message m it answers is m itself
\* when m has at most 30 characters and the first 30 characters of m
\* followed by "..." when m has 31 or more.
C14_TitleRule ==
    [][ReplyStep =>
         LET t == Head(botTimers)
             h == lsHistory'[t.username].val
         IN  \E i \in 1..Len(h) :
                /\ h[i].id = OwningChat(t)
                /\ h[i].title = ClaimedTitle(t.messages[Len(t.messages)].content)]_vars

C14_Witness ==
    /\ lastOp = "bot_reply"
    /\ \E i, j \in 1..Len(chatHistory) :
          /\ Len(chatHistory[i].messages[1].content) = 30
          /\ chatHistory[i].title = chatHistory[i].messages[1].content
          /\ Len(chatHistory[j].messages[1].content) = 31
          /\ Len(chatHistory[j].title) = 31
          /\ chatHistory[j].title[31] = "..."
          /\ SubSeq(chatHistory[j].title, 1, 30) = SubSeq(chatHistory[j].messages[1].content, 1, 30)

\* The transcript identifiers of an index, in index order
IdSeq(h) == [i \in 1..Len(h) |-> h[i].id]

\* C15: a bot reply that completes a conversation with no active transcript
\* puts the new transcript at position 0 of the index, the transcripts already
\* there following in their order; one that completes a conversation with an
\* active transcript leaves the length of the index and the order of its
\* identifiers.  The index is the one the Chat that sent the message holds:
\* while that Chat is mounted it is its in-memory index before and after the
\* reply, and the result is what the reply persists.
C15_Step ==
    ReplyStep =>
        LET t == Head(botTimers)
            old == t.chatHistory
            new == lsHistory'[t.username].val
        IN  /\ lsHistory'[t.username].kind = "json"
            /\ IF t.activeChat = NoChat
               THEN /\ Len(new) = Len(old) + 1
                    /\ new[1].id \notin IdsOf(old)
                    /\ Tail(IdSeq(new)) = IdSeq(old)
                    /\ Tail(new) = old
               ELSE /\ Len(new) = Len(old)
                    /\ IdSeq(new) = IdSeq(old)
            /\ t.live => (old = chatHistory /\ chatHistory' = new)

C15_NewestFirst == [][C15_Step]_vars

C15_Witness ==
    /\ lastOp = "bot_reply"
    /\ IdSeq(chatHistory) = << 3, 2, 1 >>
    /\ activeChat = 2
    /\ Len(chatHistory[2].messages) = 4
    /\ lsHistory[user.val.username] = Json(chatHistory)

\* C16: startNewChat sets the active pointer to null and empties the buffer,
\* and leaves the index in memory and persisted, the session in memory and
\* persisted (with its count), the loading flag and the pending reply.
C16_NewChatFrame ==
    [][NewChatStep =>
         /\ activeChat' = NoChat
         /\ currentMessages' = << >>
         /\ UNCHANGED << chatHistory, lsHistory, user, lsUser, cookie, isLoading,
                         botTimers, path, view >>]_vars

C16_Witness ==
    /\ lastOp = "new_chat"
    /\ activeChat = NoChat
    /\ currentMessages = << >>
    /\ Len(chatHistory) = 2
    /\ lsHistory[user.val.username] = Json(chatHistory)
    /\ user.val.questionsToday = 2
    /\ lsUser = Json(user.val)

\* C17: loadChat with an id that is not in the index changes nothing; with
\* an id that is in the index it sets the active pointer to the id and the
\* buffer to that transcript's messages, and leaves the index and the
\* session, in memory and persisted.
C17_SelectChat ==
    [][\A c \in 1..MaxSessionChats :
         (lastOp' \in {"load_chat", "load_missing"} /\ loadChat(c)) =>
             IF c \in IdsOf(chatHistory)
             THEN /\ activeChat' = c
                  /\ currentMessages' = MessagesOf(chatHistory, c)
                  /\ UNCHANGED << chatHistory, lsHistory, user, lsUser >>
             ELSE UNCHANGED << activeChat, currentMessages, chatHistory, lsHistory,
                               user, lsUser, isLoading, botTimers >>]_vars

C17_Witness ==
    /\ lastOp = "load_missing"
    /\ Len(chatHistory) = 2
    /\ activeChat # NoChat
    /\ currentMessages = MessagesOf(chatHistory, activeChat)
    /\ IdsOf(chatHistory) # 1..MaxSessionChats

\* A step of handleSignup up to the fetch, and of what follows the fetch
SignupSubmitStep(r) ==
    lastOp' \in {"signup_norole", "signup_submit"} /\ SignupSubmit(r)

SignupResponseStep(o, live) ==
    lastOp' \in {"signup_ok", "signup_failed"} /\ SignupResponse(o, live)

\* C18: with no role selected handleSignup starts no request and changes no
\* state; after the request, an ok response with a token stores the token
\* and navigates to "/chat", every other outcome stores no token and does not
\* navigate; in every outcome the loading flag of the page that made the
\* request is false at the end.
C18_SignupOutcome ==
    /\ [][SignupSubmitStep("") =>
            UNCHANGED << durable, path, view, signupLoading, signupDead, chatState >>]_vars
    /\ [][\A r \in SignupRoles \ {""} :
            SignupSubmitStep(r) => (signupLoading' /\ UNCHANGED << durable, path, view >>)]_vars
    /\ [][\A o \in SignupOutcomes, live \in BOOLEAN :
            SignupResponseStep(o, live) =>
                /\ IF o = "ok_token"
                   THEN cookie' = Token /\ path' = "/chat"
                   ELSE UNCHANGED << cookie, path, view >>
                /\ live => ~signupLoading'
                /\ UNCHANGED << lsUser, lsHistory >>]_vars

C18_Witness ==
    /\ lastOp = "signup_failed"
    /\ view = "signup"
    /\ path = "/signup"
    /\ ~signupLoading
    /\ signupDead = 0
    /\ cookie = NoToken

\* A reply is pending whose Chat was unmounted
DeadPending == botTimers # << >> /\ ~Head(botTimers).live

C19_LogoutStep ==
    (lastOp' = "logout" /\ handleLogout) =>
        /\ lsUser' = Absent
        /\ view' # "chat"
        /\ Len(botTimers') = Len(botTimers)
        /\ \A i \in 1..Len(botTimers) :
              /\ ~botTimers'[i].live
              /\ botTimers'[i].username = botTimers[i].username
              /\ botTimers'[i].messages = botTimers[i].messages
        /\ UNCHANGED lsHistory

C19_DeadReplyStep ==
    (ReplyStep /\ ~Head(botTimers).live) =>
        LET t == Head(botTimers)
            n == Len(t.messages)
            h == lsHistory'[t.username]
        IN  /\ h.kind = "json"
            /\ \E i \in 1..Len(h.val) :
                  /\ h.val[i].id = OwningChat(t)
                  /\ Len(h.val[i].messages) = n + 1
                  /\ SubSeq(h.val[i].messages, 1, n) = t.messages
                  /\ h.val[i].messages[n + 1].isBot
            /\ \A u \in Usernames \ {t.username} : lsHistory'[u] = lsHistory[u]
            /\ UNCHANGED << lsUser, cookie, chatState, path, view >>

\* C19: logout removes the session blob and leaves the Chat view but keeps
\* every pending reply; such a reply fires afterwards (unless the page is
\* loaded anew, which discards all timers) and then writes the index under
\* the user name of the session that sent the message, with the reply
\* appended to the sent messages, leaving the session blob as it is (absent
\* after logout) and the state of whatever page is mounted.
C19_ReplySurvivesLogout ==
    /\ [][C19_LogoutStep]_vars
    /\ [][C19_DeadReplyStep]_vars
    /\ (DeadPending ~> (lastOp \in {"bot_reply", "page_load"}))

C19_Witness ==
    /\ lastOp = "bot_reply"
    /\ view = "login"
    /\ lsUser = Absent
    /\ botTimers = << >>
    /\ Persisted(<< "v", "i", "e", "w", "e", "r" >>) # << >>

\* C20: whenever the mounted Chat has no reply pending, a null active pointer
\* comes with an empty buffer, and a pointer that names a transcript comes
\* with that transcript's messages of the index as the buffer.
C20_BufferAgrees ==
    (view = "chat" /\ ~isLoading) =>
        IF activeChat = NoChat
        THEN currentMessages = << >>
        ELSE /\ activeChat \in IdsOf(chatHistory)
             /\ currentMessages = MessagesOf(chatHistory, activeChat)

\* A page is mounted: no redirect is in progress
Settled == view \in {"login", "signup", "chat", "notfound"}

\* C21: from every stored state and after every logout the automatic
\* redirects reach a mounted page; after logout that page is the login page.
C21_RedirectsSettle ==
    /\ (view = "routing") ~> Settled
    /\ (lastOp = "logout") ~> (view = "login")

\* Every message of msgs was sent by a session of user name u, or answers one
SentBy(u, msgs) ==
    \A i \in 1..Len(msgs) :
        IF msgs[i].isBot
        THEN \E k \in 1..Len(responses(u)) : msgs[i].content = responses(u)[k]
        ELSE msgs[i].content = u

\* C22: the index persisted under the key of user name u holds only
\* transcripts whose messages were sent while the session of u was the one
\* the Chat had loaded, also when a reply of u fires after another user
\* logged in.
C22_Isolated ==
    \A u \in Usernames :
        \A i \in 1..Len(Persisted(u)) : SentBy(u, Persisted(u)[i].messages)

C22_Witness ==
    /\ lastOp = "bot_reply"
    /\ view = "chat"
    /\ user # None
    /\ user.val.username = << "v", "i", "e", "w", "e", "r" >>
    /\ lsUser = Json(user.val)
    /\ currentMessages = << >>
    /\ Persisted(<< "v", "i", "e", "w", "e", "r" >>) = << >>
    /\ Persisted(<< "A", "d", "m", "i", "n" >>) # << >>

====
